---- MODULE Spec2Model ----
(***************************************************************************)
(* KPI dashboard (manson0711/kpi-dashboard): the seeded pseudo-random      *)
(* stream, the date range expansion, the three channel synthesizers and    *)
(* the refresh controller of the two dashboard variants                    *)
(*   "dashboard" = src/linked_in_you_tube_web_kpi_dashboard.jsx            *)
(*   "app"       = src/src/App.jsx                                         *)
(*                                                                         *)
(* Numbers.  JavaScript numbers are doubles.  Every product the code forms *)
(* from a stream state stays below 2^53, so the stream is exact integer    *)
(* arithmetic; a draw t/2147483647 is kept as its numerator t.  TLC's      *)
(* integers are 32 bits wide, so products with a stream state are formed   *)
(* by MulDiv (double-and-add with carries), which returns the exact        *)
(* quotient and remainder by the modulus.  NaN and Infinity are values of  *)
(* their own (kind "NaN" / "Inf").                                         *)
(*                                                                         *)
(* Dates.  An ISO date string "YYYY-MM-DD" is the tuple <<Y, M, D>>, the   *)
(* empty string of a cleared date input is <<>>.  A Date object is         *)
(* [ok, h]: ok = FALSE is the Invalid Date (time value NaN), h counts the  *)
(* hours since 1970-01-01T00:00Z.  getDate/setDate work in the local time  *)
(* zone of the browser, toISOString in UTC.                                *)
(***************************************************************************)
EXTENDS Integers, Naturals, Sequences, FiniteSets, TLC

VARIABLES
    tz,        \* the browser's local time zone (environment, fixed per run)
    now,       \* the wall clock, hours since 1970-01-01T00:00Z
    streams,   \* stream specification: the closures built by seeded()
    genIn,     \* synthesizer specification: the arguments of the calls
    genOut,    \* synthesizer specification: the results of the calls so far
    variant,   \* which component is mounted: "dashboard" or "app"
    view,      \* the state of the last committed render
    pending,   \* state updates enqueued by setX() and not yet rendered
    inflight,  \* loadAll invocations suspended at their await
    done,      \* ghost: the refreshes whose results reached the screen
    reqs       \* ghost: number of loadAll invocations so far

vars == <<tz, now, streams, genIn, genOut, variant, view, pending, inflight, done, reqs>>

-----------------------------------------------------------------------------
(* Bounds of the model *)

MaxStreams == 2      \* streams built in the stream specification
MaxDraws == 4        \* draws per stream in the stream specification
MaxSeed == 1         \* small seeds -MaxSeed..MaxSeed besides the named ones
MaxCalls == 2        \* synthesizer calls per run of the synthesizer specification
WindowDays == 8      \* calendar days the date inputs range over
ViewDays == 1        \* calendar days the date inputs of the mounted component offer
MaxReqs == 2         \* refreshes per run of the view specification
OrderDays == 4       \* days of the longest range of the ordering specification

-----------------------------------------------------------------------------
(* Calendar arithmetic of the Date object (ECMAScript MakeDay / DateFromTime,
   proleptic Gregorian calendar, days counted from 1970-01-01). *)

DaysFromCivil(y, m, d) ==
    LET yy  == IF m <= 2 THEN y - 1 ELSE y
        era == yy \div 400
        yoe == yy - era * 400
        mp  == IF m > 2 THEN m - 3 ELSE m + 9
        doy == (153 * mp + 2) \div 5 + d - 1
        doe == yoe * 365 + yoe \div 4 - yoe \div 100 + doy
    IN  era * 146097 + doe - 719468

CivilFromDays(z0) ==
    LET z   == z0 + 719468
        era == z \div 146097
        doe == z - era * 146097
        yoe == (doe - doe \div 1460 + doe \div 36524 - doe \div 146096) \div 365
        doy == doe - (365 * yoe + yoe \div 4 - yoe \div 100)
        mp  == (5 * doy + 2) \div 153
        d   == doy - (153 * mp + 2) \div 5 + 1
        m   == IF mp < 10 THEN mp + 3 ELSE mp - 9
        y   == yoe + era * 400 + (IF m <= 2 THEN 1 ELSE 0)
    IN  <<y, m, d>>

InvalidDate == [ok |-> FALSE, h |-> 0]

\* new Date(iso): a date-only ISO string is UTC midnight; "" is Invalid Date
NewDate(iso) ==
    IF Len(iso) # 3 THEN InvalidDate
    ELSE [ok |-> TRUE, h |-> 24 * DaysFromCivil(iso[1], iso[2], iso[3])]

\* Time zones: standard and daylight offsets in hours, and the UTC instants
\* between which daylight time applies (year 2024).
UtcHour(y, m, d, hh) == 24 * DaysFromCivil(y, m, d) + hh

Zones ==
    [ UTC    |-> [std |-> 0, dst |-> 0,
                  dstStart |-> UtcHour(2024, 1, 1, 0), dstEnd |-> UtcHour(2024, 1, 1, 0)],
      Berlin |-> [std |-> 1, dst |-> 2,
                  dstStart |-> UtcHour(2024, 3, 31, 1), dstEnd |-> UtcHour(2024, 10, 27, 1)],
      NewYork |-> [std |-> -5, dst |-> -4,
                  dstStart |-> UtcHour(2024, 3, 10, 7), dstEnd |-> UtcHour(2024, 11, 3, 6)] ]

ZoneNames == {"UTC", "Berlin", "NewYork"}

\* LocalTime(t): UTC instant to local wall-clock hours
LocalTime(z, h) ==
    IF h >= Zones[z].dstStart /\ h < Zones[z].dstEnd THEN h + Zones[z].dst ELSE h + Zones[z].std

\* UTC(t): local wall-clock hours to UTC instant (a wall-clock time that does
\* not exist is read with the offset before the transition)
UtcOfLocal(z, l) ==
    LET a == l - Zones[z].dst
    IN  IF a >= Zones[z].dstStart /\ a < Zones[z].dstEnd THEN a ELSE l - Zones[z].std

\* d.setDate(d.getDate() + n): n local calendar days later, same wall clock
SetDatePlus(z, d, n) ==
    IF ~d.ok THEN d ELSE [ok |-> TRUE, h |-> UtcOfLocal(z, LocalTime(z, d.h) + 24 * n)]

\* toISODate(d): x.toISOString().slice(0, 10) is the UTC calendar date.
\* toISOString throws RangeError on an Invalid Date: the result <<>> with
\* threw = TRUE.
toISODate(d) ==
    IF ~d.ok THEN [threw |-> TRUE, iso |-> <<>>]
    ELSE [threw |-> FALSE, iso |-> CivilFromDays(d.h \div 24)]

\* the loop condition d <= end of rangeDays: false when either side is NaN
DateLE_invalidFirst(d, e) == IF ~d.ok THEN TRUE ELSE e.ok /\ d.h <= e.h
DateLE(d, e) == d.ok /\ e.ok /\ d.h <= e.h

\* res.push(toISODate(d)) and d.setDate(d.getDate() + 1); a throw of
\* toISODate leaves the loop
rangePush(z, st, s) ==
    IF s.threw THEN [st EXCEPT !.stop = TRUE, !.threw = TRUE]
    ELSE [st EXCEPT !.d = SetDatePlus(z, st.d, 1), !.dates = Append(st.dates, s.iso)]

\* one turn of the for loop: the test d <= end, then the body; none once the
\* loop is left
rangeTurn(z, end, st) ==
    IF st.stop THEN st
    ELSE IF ~DateLE(st.d, end) THEN [st EXCEPT !.stop = TRUE]
    ELSE rangePush(z, st, toISODate(st.d))

\* (four turns per level keep the evaluation of a 90-day range shallow)
RECURSIVE rangeLoop(_, _, _)
rangeLoop(z, end, st) ==
    IF st.stop THEN [threw |-> st.threw, dates |-> st.dates]
    ELSE rangeLoop(z, end,
             rangeTurn(z, end, rangeTurn(z, end, rangeTurn(z, end, rangeTurn(z, end, st)))))

rangeDays(z, startISO, endISO) ==
    rangeLoop(z, NewDate(endISO),
        [d |-> NewDate(startISO), dates |-> <<>>, threw |-> FALSE, stop |-> FALSE])

-----------------------------------------------------------------------------
(* JavaScript numbers that are not integers *)

Modulus == 2147483647
Multiplier == 48271

\* x + y for 0 <= x, y < Modulus: <<carry, (x + y) mod Modulus>>
AddMod(x, y) == IF x >= Modulus - y THEN <<1, x - (Modulus - y)>> ELSE <<0, x + y>>

\* b * t for b >= 0 and 0 <= t < Modulus: <<quotient, remainder>> by Modulus
\* (the steps of MulDiv: h is the product for b \div 2, d its double, e the
\* double plus t)
MulCarry(q, e) == <<q + e[1], e[2]>>
MulDouble(h, d, bit, t) ==
    IF bit = 1 THEN MulCarry(2 * h[1] + d[1], AddMod(d[2], t))
    ELSE <<2 * h[1] + d[1], d[2]>>
MulStep(h, bit, t) == MulDouble(h, AddMod(h[2], h[2]), bit, t)

RECURSIVE MulDiv(_, _)
MulDiv(b, t) ==
    IF b = 0 THEN <<0, 0>> ELSE MulStep(MulDiv(b \div 2, t), b % 2, t)

\* the remainder operator %: the result has the sign of the dividend
JSRem(x, m) == IF x >= 0 THEN x % m ELSE -((-x) % m)

\* a number (w + f / Modulus) / d, or NaN, or Infinity
NaN == [k |-> "NaN", w |-> 0, f |-> 0, d |-> 1]
Inf == [k |-> "Inf", w |-> 0, f |-> 0, d |-> 1]
Num(w, f, d) == [k |-> "num", w |-> w, f |-> f, d |-> d]
Zero == Num(0, 0, 1)

\* the division (w + f / Modulus) / d of two non-negative numbers
JSDiv(w, f, d) ==
    IF d = 0 THEN (IF w = 0 /\ f = 0 THEN NaN ELSE Inf) ELSE Num(w, f, d)

IsZero(x) == x.k = "num" /\ x.w = 0 /\ x.f = 0

\* Math.round(a + rnd() * b) for the draw t / Modulus, integers a, b >= 0
Round(a, b, t) ==
    LET p == MulDiv(b, t) IN a + p[1] + (IF p[2] > Modulus \div 2 THEN 1 ELSE 0)

\* Math.round((c + b * rnd()) / den) for the draw t / Modulus, den even:
\* the form of Math.round(x * (c0 + rnd() * b0)) with decimal factors
RoundScaled(c, b, t, den) == (c + MulDiv(b, t)[1] + den \div 2) \div den

\* Math.round(n / d) of non-negative integers (NaN for 0 / 0)
RoundDiv(n, d) ==
    IF d = 0 THEN (IF n = 0 THEN NaN ELSE Inf) ELSE Num((2 * n + d) \div (2 * d), 0, 1)

-----------------------------------------------------------------------------
(* seeded(seed): the stream.  The closure variable t is the whole state of a
   stream; seeded returns its initial value and rnd one draw: the new t,
   which is also the numerator of the value returned (t / Modulus). *)

\* (the closures built so far stay on the heap, in streams; a stream that
\* picked up the state of an earlier one is seeded_shared)
seeded_shared(seed) ==
    LET S == {i \in 1..Len(streams) : streams[i].seed = seed}
    IN  IF S = {} THEN JSRem(seed, Modulus)
        ELSE streams[CHOOSE i \in S : \A j \in S : j <= i].t
\* (a state initialised with the quotient instead of the remainder is
\* seeded_quotient)
seeded_quotient(seed) == seed \div Modulus
seeded(seed) == JSRem(seed, Modulus)

\* (a stream with the multiplier 16807 of the older minimal standard, and
\* one with an increment, are rnd_minstd0 and rnd_increment)
rnd_minstd0(t) == IF t >= 0 THEN MulDiv(16807, t)[2] ELSE -(MulDiv(16807, -t)[2])
rnd_increment(t) ==
    IF t >= 0 THEN AddMod(MulDiv(Multiplier, t)[2], 1)[2]
    ELSE -(AddMod(MulDiv(Multiplier, -t)[2], 1)[2])
rnd(t) == IF t >= 0 THEN MulDiv(Multiplier, t)[2] ELSE -(MulDiv(Multiplier, -t)[2])

\* n successive calls of rnd() on a stream in state t: the states after each
RECURSIVE Draws(_, _)
DrawsFrom(t1, n) == <<t1>> \o Draws(t1, n - 1)
Draws(t, n) == IF n = 0 THEN <<>> ELSE DrawsFrom(rnd(t), n)

-----------------------------------------------------------------------------
(* The three channel synthesizers.  v is the variant, z the time zone. *)

\* one callback of dates.map: d holds the stream states after the draws of
\* the day, in the order of the draws
\* (Math.round(20 + (rnd() - 0.5) * 120) for the reactions is liPost_centred)
liPost_centred(v, date, s, d, imp) ==
    LET full == (v = "dashboard")
        clk  == RoundScaled(12 * imp, 10 * imp, d[IF full THEN 5 ELSE 3], 1000)
        sp   == MulDiv(60, d[IF full THEN 6 ELSE 4])
        add  == AddMod(s.spend.f, MulDiv(60, d[IF full THEN 6 ELSE 4])[2])
        le   == Round(0, 4, d[IF full THEN 7 ELSE 5])
    IN  [ t |-> d[Len(d)],
          impressions |-> s.impressions + imp,
          clicks |-> s.clicks + clk,
          spend |-> [w |-> s.spend.w + 15 + sp[1] + add[1], f |-> add[2]],
          leads |-> s.leads + le,
          posts |-> Append(s.posts,
              IF full
              THEN [date |-> date, impressions |-> imp, reactions |-> Round(20, 120, d[2]) - 60,
                    comments |-> Round(0, 18, d[3]), shares |-> Round(0, 15, d[4])]
              ELSE [date |-> date, impressions |-> imp, reactions |-> Round(20, 120, d[2]) - 60]) ]

liPost(v, date, s, d, imp) ==
    LET full == (v = "dashboard")
        clk  == RoundScaled(12 * imp, 10 * imp, d[IF full THEN 5 ELSE 3], 1000)
        sp   == MulDiv(60, d[IF full THEN 6 ELSE 4])
        add  == AddMod(s.spend.f, MulDiv(60, d[IF full THEN 6 ELSE 4])[2])
        le   == Round(0, 4, d[IF full THEN 7 ELSE 5])
    IN  [ t |-> d[Len(d)],
          impressions |-> s.impressions + imp,
          clicks |-> s.clicks + clk,
          spend |-> [w |-> s.spend.w + 15 + sp[1] + add[1], f |-> add[2]],
          leads |-> s.leads + le,
          posts |-> Append(s.posts,
              IF full
              THEN [date |-> date, impressions |-> imp, reactions |-> Round(20, 120, d[2]),
                    comments |-> Round(0, 18, d[3]), shares |-> Round(0, 15, d[4])]
              ELSE [date |-> date, impressions |-> imp, reactions |-> Round(20, 120, d[2])]) ]

liDraws(v, date, s, d) == liPost(v, date, s, d, Round(800, 1800, d[1]))

liDay(v, date, s) == liDraws(v, date, s, Draws(s.t, IF v = "dashboard" THEN 7 ELSE 5))

\* dates.map(...): one record per date, in order
\* one turn of the loop of dates.map; none once every date is mapped
liTurn(v, dates, s) ==
    IF Len(s.posts) >= Len(dates) THEN s ELSE liDay(v, dates[Len(s.posts) + 1], s)

\* (four turns per level keep the evaluation of a 90-day range shallow)
RECURSIVE liLoop(_, _, _)
liLoop(v, dates, s) ==
    IF Len(s.posts) >= Len(dates) THEN s
    ELSE liLoop(v, dates,
             liTurn(v, dates, liTurn(v, dates, liTurn(v, dates, liTurn(v, dates, s)))))

Thrown == [threw |-> TRUE]

\* the post list of the dashboard variant: postTitles.map((title) => ...)
\* with six draws per title, sorted by impressions, largest first
PostTitles == 10

\* dates[i] of a JavaScript array: undefined outside 0..length-1
Undefined == <<"undefined">>
At(dates, i) == IF i >= 0 /\ i < Len(dates) THEN dates[i + 1] ELSE Undefined

\* Math.floor(rnd() * n) for the draw t / Modulus
\* (Math.round in its place is FloorScaled_round)
FloorScaled_round(n, t) == Round(0, n, t)
FloorScaled(n, t) == MulDiv(n, t)[1]

postRates(title, published, imp, clk, rea, com, sha) ==
    [ title |-> title, published |-> published, impressions |-> imp, clicks |-> clk,
      reactions |-> rea, comments |-> com, shares |-> sha,
      engagement |-> rea + com + sha,
      engagementRate |-> JSDiv(rea + com + sha, 0, imp),
      ctr |-> JSDiv(clk, 0, imp) ]

postClicks(title, dates, d, imp) ==
    postRates(title, At(dates, FloorScaled(Len(dates), d[1])), imp,
              RoundScaled(12 * imp, 15 * imp, d[3], 1000),
              Round(25, 250, d[4]), Round(0, 45, d[5]), Round(0, 30, d[6]))

\* the map callback for one title; d holds its six draws
postItem(title, dates, d) == postClicks(title, dates, d, Round(4000, 18000, d[2]))

\* st holds the stream and the items mapped so far
postTurn(dates, st, d) ==
    [t |-> d[6], items |-> Append(st.items, postItem(Len(st.items) + 1, dates, d))]

RECURSIVE postLoop(_, _)
postLoop(dates, st) ==
    IF Len(st.items) >= PostTitles THEN st
    ELSE postLoop(dates, postTurn(dates, st, Draws(st.t, 6)))

\* .sort((a, b) => b.impressions - a.impressions): stable, largest first
RECURSIVE sortInsert(_, _)
sortInsert(sorted, x) ==
    IF sorted = <<>> THEN <<x>>
    ELSE IF sorted[Len(sorted)].impressions >= x.impressions THEN Append(sorted, x)
    ELSE Append(sortInsert(SubSeq(sorted, 1, Len(sorted) - 1), x), sorted[Len(sorted)])

RECURSIVE sortPosts(_, _)
sortPosts(items, sorted) ==
    IF Len(sorted) >= Len(items) THEN sorted
    ELSE sortPosts(items, sortInsert(sorted, items[Len(sorted) + 1]))

\* the dates array, as the posts of the loop hold it
postDates(s) == [i \in 1..Len(s.posts) |-> s.posts[i].date]

\* the post list and the stream after it; the App variant has none
postItems(v, s) ==
    IF v = "dashboard" THEN postLoop(postDates(s), [t |-> s.t, items |-> <<>>])
    ELSE [t |-> s.t, items |-> <<>>]

liSummaryWith(v, threw, s, pl) ==
    LET ctr == JSDiv(s.clicks, 0, s.impressions)
        cpc == JSDiv(s.spend.w, s.spend.f, s.clicks)
        cpl == IF s.leads # 0 THEN JSDiv(s.spend.w, s.spend.f, s.leads) ELSE Zero
    IN  [ t |-> IF threw THEN s.t ELSE pl.t,
          res |->
            IF threw THEN Thrown
            ELSE IF v = "dashboard"
            THEN [threw |-> FALSE, spend |-> s.spend, impressions |-> s.impressions,
                  clicks |-> s.clicks, leads |-> s.leads, ctr |-> ctr, cpc |-> cpc,
                  cpl |-> cpl, posts |-> s.posts,
                  postItems |-> sortPosts(pl.items, <<>>)]
            ELSE [threw |-> FALSE, spend |-> s.spend, impressions |-> s.impressions,
                  clicks |-> s.clicks, leads |-> s.leads, ctr |-> ctr, cpc |-> cpc,
                  posts |-> s.posts] ]

\* the summary built after the loop; s holds the accumulators and the stream
liSummary(v, threw, s) == liSummaryWith(v, threw, s, postItems(v, s))

\* const rnd = seeded(42); let impressions = 0, clicks = 0, spend = 0, leads = 0
liStart ==
    [t |-> seeded(42), impressions |-> 0, clicks |-> 0,
     spend |-> [w |-> 0, f |-> 0], leads |-> 0, posts |-> <<>>]

liRange(v, r) == liSummary(v, r.threw, liLoop(v, r.dates, liStart))

genLinkedInMockRun(v, z, fromISO, toISO) == liRange(v, rangeDays(z, fromISO, toISO))

genLinkedInMock(v, z, fromISO, toISO) == genLinkedInMockRun(v, z, fromISO, toISO).res

\* the CPL the App variant computes for display:
\* li.spend / Math.max(1, li.leads)
AppCPL_unguarded(l) == JSDiv(l.spend.w, l.spend.f, l.leads)
AppCPL(l) == JSDiv(l.spend.w, l.spend.f, IF l.leads > 1 THEN l.leads ELSE 1)

\* (views = v instead of views += v is ytPoint_overwrite)
ytPoint_overwrite(v, date, s, d, vw, wt) ==
    LET full == (v = "dashboard")
        av   == (120 * wt + vw) \div (2 * vw)
        sg   == Round(0, IF full THEN 15 ELSE 25, d[3])
        sl   == Round(0, 5, d[Len(d)])
    IN  [ t |-> d[Len(d)],
          views |-> vw,
          watchTime |-> s.watchTime + wt,
          subsGained |-> s.subsGained + sg,
          subsLost |-> s.subsLost + (IF full THEN sl ELSE 0),
          avgView |-> s.avgView + av,
          daily |-> Append(s.daily,
              IF full
              THEN [date |-> date, views |-> vw, watchTime |-> wt,
                    avgViewSeconds |-> av, subs |-> sg - sl]
              ELSE [date |-> date, views |-> vw, watchTime |-> wt, subscribers |-> sg]) ]

ytPoint(v, date, s, d, vw, wt) ==
    LET full == (v = "dashboard")
        av   == (120 * wt + vw) \div (2 * vw)
        sg   == Round(0, IF full THEN 15 ELSE 25, d[3])
        sl   == Round(0, 5, d[Len(d)])
    IN  [ t |-> d[Len(d)],
          views |-> s.views + vw,
          watchTime |-> s.watchTime + wt,
          subsGained |-> s.subsGained + sg,
          subsLost |-> s.subsLost + (IF full THEN sl ELSE 0),
          avgView |-> s.avgView + av,
          daily |-> Append(s.daily,
              IF full
              THEN [date |-> date, views |-> vw, watchTime |-> wt,
                    avgViewSeconds |-> av, subs |-> sg - sl]
              ELSE [date |-> date, views |-> vw, watchTime |-> wt, subscribers |-> sg]) ]

ytViews(v, date, s, d, vw) ==
    ytPoint(v, date, s, d, vw, RoundScaled(22 * vw, 18 * vw, d[2], 10))

ytDraws(v, date, s, d) == ytViews(v, date, s, d, Round(300, 1200, d[1]))

ytDay(v, date, s) == ytDraws(v, date, s, Draws(s.t, IF v = "dashboard" THEN 4 ELSE 3))

\* dates.map(...): one record per date, in order
\* one turn of the loop of dates.map; none once every date is mapped
ytTurn(v, dates, s) ==
    IF Len(s.daily) >= Len(dates) THEN s ELSE ytDay(v, dates[Len(s.daily) + 1], s)

\* (four turns per level keep the evaluation of a 90-day range shallow)
RECURSIVE ytLoop(_, _, _)
ytLoop(v, dates, s) ==
    IF Len(s.daily) >= Len(dates) THEN s
    ELSE ytLoop(v, dates,
             ytTurn(v, dates, ytTurn(v, dates, ytTurn(v, dates, ytTurn(v, dates, s)))))

ytSummary(v, threw, s) ==
    LET avg == JSDiv(s.avgView, 0, Len(s.daily))
    IN  [ t |-> s.t,
          res |->
            IF threw THEN Thrown
            ELSE IF v = "dashboard"
            THEN [threw |-> FALSE, views |-> s.views, watchTime |-> s.watchTime,
                  subsGained |-> s.subsGained, subsLost |-> s.subsLost,
                  averageViewDuration |-> avg, daily |-> s.daily]
            ELSE [threw |-> FALSE, views |-> s.views, watchTime |-> s.watchTime,
                  subscribers |-> s.subsGained,
                  averageViewDuration |-> avg, daily |-> s.daily] ]

ytStart ==
    [t |-> seeded(7), views |-> 0, watchTime |-> 0, subsGained |-> 0,
     subsLost |-> 0, avgView |-> 0, daily |-> <<>>]

ytRange(v, r) == ytSummary(v, r.threw, ytLoop(v, r.dates, ytStart))

genYouTubeMockRun(v, z, fromISO, toISO) == ytRange(v, rangeDays(z, fromISO, toISO))

genYouTubeMock(v, z, fromISO, toISO) == genYouTubeMockRun(v, z, fromISO, toISO).res

webPoint(v, date, s, d, ses, conv) ==
    LET full == (v = "dashboard")
        usr  == RoundScaled(75 * ses, 20 * ses, d[2], 100)
        pv   == RoundScaled(170 * ses, 150 * ses, d[3], 100)
        rev  == Round(50 * conv, 200 * conv, d[IF full THEN 5 ELSE 4])
        dur  == Round(120, 90, d[Len(d)])
    IN  [ t |-> d[Len(d)],
          sessions |-> s.sessions + ses,
          users |-> s.users + usr,
          pageviews |-> s.pageviews + (IF full THEN pv ELSE 0),
          conversions |-> s.conversions + conv,
          revenue |-> s.revenue + rev,
          duration |-> s.duration + (IF full THEN dur ELSE 0),
          daily |-> Append(s.daily,
              IF full
              THEN [date |-> date, sessions |-> ses, users |-> usr, pageviews |-> pv,
                    conversions |-> conv, revenue |-> rev, avgSessionSec |-> dur]
              ELSE [date |-> date, sessions |-> ses, conversions |-> conv,
                    revenue |-> rev]) ]

webSessions(v, date, s, d, ses) ==
    webPoint(v, date, s, d, ses,
        RoundScaled(15 * ses, 20 * ses, d[IF v = "dashboard" THEN 4 ELSE 3], 1000))

\* (sessions that also grow with the day of the month is webDraws_dated)
webDraws_dated(v, date, s, d) ==
    webSessions(v, date, s, d, Round(400, 1600, d[1]) + date[3])
webDraws(v, date, s, d) == webSessions(v, date, s, d, Round(400, 1600, d[1]))

webDay(v, date, s) == webDraws(v, date, s, Draws(s.t, IF v = "dashboard" THEN 6 ELSE 4))

\* dates.map(...): one record per date, in order
\* one turn of the loop of dates.map; none once every date is mapped
webTurn(v, dates, s) ==
    IF Len(s.daily) >= Len(dates) THEN s ELSE webDay(v, dates[Len(s.daily) + 1], s)

\* (four turns per level keep the evaluation of a 90-day range shallow)
RECURSIVE webLoop(_, _, _)
webLoop(v, dates, s) ==
    IF Len(s.daily) >= Len(dates) THEN s
    ELSE webLoop(v, dates,
             webTurn(v, dates, webTurn(v, dates, webTurn(v, dates, webTurn(v, dates, s)))))

webSummary(v, threw, s) ==
    [ t |-> s.t,
      res |->
        IF threw THEN Thrown
        ELSE IF v = "dashboard"
        THEN [threw |-> FALSE, sessions |-> s.sessions, users |-> s.users,
              pageviews |-> s.pageviews, conversions |-> s.conversions,
              revenue |-> s.revenue,
              avgSessionDuration |-> RoundDiv(s.duration, Len(s.daily)),
              daily |-> s.daily]
        ELSE [threw |-> FALSE, sessions |-> s.sessions, users |-> s.users,
              conversions |-> s.conversions, revenue |-> s.revenue,
              avgSessionDuration |-> Num(145, 0, 1),
              daily |-> s.daily] ]

webStart ==
    [t |-> seeded(1337), sessions |-> 0, users |-> 0, pageviews |-> 0,
     conversions |-> 0, revenue |-> 0, duration |-> 0, daily |-> <<>>]

webRange(v, r) == webSummary(v, r.threw, webLoop(v, r.dates, webStart))

genWebMockRun(v, z, fromISO, toISO) == webRange(v, rangeDays(z, fromISO, toISO))

genWebMock(v, z, fromISO, toISO) == genWebMockRun(v, z, fromISO, toISO).res

-----------------------------------------------------------------------------
(* Inputs *)

Variants == {"dashboard", "app"}

\* the values a date input can deliver: the days of the window, or ""
WindowStart == DaysFromCivil(2024, 3, 27)
DateInputs == {CivilFromDays(WindowStart + i) : i \in 0..(WindowDays - 1)} \cup {<<>>}

Seeds == (-MaxSeed..MaxSeed) \cup {7, 42, 1337, Modulus, -Modulus}

\* the closure a finished synthesizer call leaves behind
Closure(seed, t) == [seed |-> seed, t |-> t, outs |-> <<>>]

\* a channel result held in component state: null, or the result (with the
\* number of the refresh that produced it, a ghost)
Null == [p |-> FALSE, req |-> 0]
Some(req, r) == [p |-> TRUE, req |-> req, v |-> r]

NoView == [fromISO |-> <<>>, toISO |-> <<>>, loading |-> FALSE]

-----------------------------------------------------------------------------
(* Stream specification: streams are built by seeded(seed) and drawn from,
   in any order. *)

NewStream(seed) ==
    /\ Len(streams) < MaxStreams
    /\ streams' = Append(streams, [seed |-> seed, t |-> seeded(seed), outs |-> <<>>])
    /\ UNCHANGED <<tz, now, genIn, genOut, variant, view, pending, inflight, done, reqs>>

Draw(i) ==
    /\ Len(streams[i].outs) < MaxDraws
    /\ LET t1 == rnd(streams[i].t)
       IN  streams' = [streams EXCEPT ![i] =
                          [seed |-> @.seed, t |-> t1, outs |-> Append(@.outs, t1)]]
    /\ UNCHANGED <<tz, now, genIn, genOut, variant, view, pending, inflight, done, reqs>>

InitStream ==
    /\ tz = "UTC"
    /\ now = 0
    /\ streams = <<>>
    /\ genIn = [v |-> "dashboard", fromISO |-> <<>>, toISO |-> <<>>]
    /\ genOut = <<>>
    /\ variant = "dashboard"
    /\ view = NoView
    /\ pending = <<>>
    /\ inflight = <<>>
    /\ done = <<>>
    /\ reqs = 0

NextStream ==
    \/ \E seed \in Seeds : NewStream(seed)
    \/ \E i \in 1..Len(streams) : Draw(i)

SpecStream == InitStream /\ [][NextStream]_vars

-----------------------------------------------------------------------------
(* Synthesizer specification: the three synthesizers are called, again and
   again, with the date range and in the time zone chosen initially. *)

GenCall ==
    /\ Len(genOut) < MaxCalls
    /\ LET l == genLinkedInMockRun(genIn.v, tz, genIn.fromISO, genIn.toISO)
           y == genYouTubeMockRun(genIn.v, tz, genIn.fromISO, genIn.toISO)
           w == genWebMockRun(genIn.v, tz, genIn.fromISO, genIn.toISO)
       IN  /\ genOut' = Append(genOut, [li |-> l.res, yt |-> y.res, web |-> w.res])
           /\ streams' = streams \o <<Closure(42, l.t), Closure(7, y.t), Closure(1337, w.t)>>
    /\ UNCHANGED <<tz, now, genIn, variant, view, pending, inflight, done, reqs>>

InitGen ==
    /\ tz \in ZoneNames
    /\ now = 0
    /\ streams = <<>>
    /\ genIn \in [v : Variants, fromISO : DateInputs, toISO : DateInputs]
    /\ genOut = <<>>
    /\ variant = genIn.v
    /\ view = NoView
    /\ pending = <<>>
    /\ inflight = <<>>
    /\ done = <<>>
    /\ reqs = 0

NextGen == GenCall

SpecGen == InitGen /\ [][NextGen]_vars

-----------------------------------------------------------------------------
(* Ordering specification: the three calls of one refresh,
   Promise.all([li, yt, web]), taken apart.  The calls start in any order,
   their map callbacks interleave day by day, their promises settle in any
   order, and Promise.all hands the values over by position.  Each call
   draws from the closure its own seeded(...) created; done holds the results
   of the calls made one after the other in the order of the array. *)

Channels == {"li", "yt", "web"}

\* the accumulators and the stream a synthesizer starts with
StartOf(c) == IF c = "li" THEN liStart ELSE IF c = "yt" THEN ytStart ELSE webStart

SeedOf(c) == IF c = "li" THEN 42 ELSE IF c = "yt" THEN 7 ELSE 1337

\* one run of the map callback of synthesizer c
DayOf(c, v, date, s) ==
    IF c = "li" THEN liDay(v, date, s)
    ELSE IF c = "yt" THEN ytDay(v, date, s)
    ELSE webDay(v, date, s)

\* the object synthesizer c returns after its loop
SummaryOf(c, v, threw, s) ==
    IF c = "li" THEN liSummary(v, threw, s).res
    ELSE IF c = "yt" THEN ytSummary(v, threw, s).res
    ELSE webSummary(v, threw, s).res

\* the days synthesizer c has mapped so far
Mapped(c, s) == IF c = "li" THEN Len(s.posts) ELSE Len(s.daily)

\* the closure a call draws from: the one its own seeded(...) returned
\* (one rnd shared by the three synthesizers is StreamFor_first)
StreamFor_first(p) == 1
StreamFor(p) == p.stream

Started(c) == \E k \in 1..Len(inflight) : inflight[k].ch = c

CallOf(c) == CHOOSE k \in 1..Len(inflight) : inflight[k].ch = c

Finished(p) == Mapped(p.ch, p.acc) = Len(p.dates)

Settled == {k \in 1..Len(inflight) : inflight[k].at # 0}

StartCallWith(c, r) ==
    /\ streams' = Append(streams, Closure(SeedOf(c), StartOf(c).t))
    /\ inflight' = Append(inflight,
           [ch |-> c, dates |-> r.dates, threw |-> r.threw, acc |-> StartOf(c),
            stream |-> Len(streams) + 1, at |-> 0])

\* the synthesizer is entered: rangeDays(fromISO, toISO), seeded(...), let ... = 0
StartCall(c) ==
    /\ genOut = <<>>
    /\ ~Started(c)
    /\ StartCallWith(c, rangeDays(tz, genIn.fromISO, genIn.toISO))
    /\ UNCHANGED <<tz, now, genIn, genOut, variant, view, pending, done, reqs>>

StepCallWith(k, s1) ==
    /\ inflight' = [inflight EXCEPT ![k].acc = s1]
    /\ streams' = [streams EXCEPT ![StreamFor(inflight[k])].t = s1.t]

\* one more date is mapped, drawing from the call's closure
StepCall(k) ==
    /\ ~Finished(inflight[k])
    /\ StepCallWith(k,
           DayOf(inflight[k].ch, genIn.v,
                 inflight[k].dates[Mapped(inflight[k].ch, inflight[k].acc) + 1],
                 [inflight[k].acc EXCEPT !.t = streams[StreamFor(inflight[k])].t]))
    /\ UNCHANGED <<tz, now, genIn, genOut, variant, view, pending, done, reqs>>

\* the promise of a call that has returned is settled
SettleCall(k) ==
    /\ Finished(inflight[k])
    /\ inflight[k].at = 0
    /\ inflight' = [inflight EXCEPT ![k].at = Cardinality(Settled) + 1]
    /\ UNCHANGED <<tz, now, streams, genIn, genOut, variant, view, pending, done, reqs>>

ValueOf(k) ==
    SummaryOf(inflight[k].ch, genIn.v, inflight[k].threw, inflight[k].acc)

Arrival(n) == CHOOSE k \in 1..Len(inflight) : inflight[k].at = n

\* const [l, y, w] = await Promise.all([li, yt, web]): values by position
PromiseAll ==
    [li |-> ValueOf(CallOf("li")), yt |-> ValueOf(CallOf("yt")),
     web |-> ValueOf(CallOf("web"))]

Collected(r) ==
    [li |-> r.li, yt |-> r.yt, web |-> r.web,
     started |-> [k \in 1..3 |-> inflight[k].ch],
     settled |-> [n \in 1..3 |-> inflight[Arrival(n)].ch]]

Collect ==
    /\ genOut = <<>>
    /\ Len(inflight) = 3
    /\ Cardinality(Settled) = 3
    /\ genOut' = <<Collected(PromiseAll)>>
    /\ UNCHANGED <<tz, now, streams, genIn, variant, view, pending, inflight, done, reqs>>

\* the end dates of the refresh: the first OrderDays days, or no date
OrderInputs == {CivilFromDays(WindowStart + i) : i \in 0..(OrderDays - 1)} \cup {<<>>}

InOrder(v, z, fromISO, toISO) ==
    [li |-> genLinkedInMock(v, z, fromISO, toISO),
     yt |-> genYouTubeMock(v, z, fromISO, toISO),
     web |-> genWebMock(v, z, fromISO, toISO)]

InitOrder ==
    /\ tz = "UTC"
    /\ now = 0
    /\ streams = <<>>
    /\ genIn \in [v : Variants, fromISO : {CivilFromDays(WindowStart)}, toISO : OrderInputs]
    /\ genOut = <<>>
    /\ variant = genIn.v
    /\ view = NoView
    /\ pending = <<>>
    /\ inflight = <<>>
    /\ done = <<InOrder(genIn.v, tz, genIn.fromISO, genIn.toISO)>>
    /\ reqs = 0

NextOrder ==
    \/ \E c \in Channels : StartCall(c)
    \/ \E k \in 1..Len(inflight) : StepCall(k)
    \/ \E k \in 1..Len(inflight) : SettleCall(k)
    \/ Collect

SpecOrder == InitOrder /\ [][NextOrder]_vars

-----------------------------------------------------------------------------
(* View specification: the mounted component.  view is what the last
   committed render shows and what the closures of its event handlers see;
   a setX(v) call appends an update to pending and the next render applies
   all pending updates together.  An await suspends loadAll; everything
   loadAll awaits resolves without a macrotask, so no event handler runs
   between the two halves of loadAll. *)

\* (days after the initial range, so that a start after the end can be entered)
ViewStart == WindowStart + 9
ViewDates == {CivilFromDays(ViewStart + i) : i \in 0..(ViewDays - 1)} \cup {<<>>}

\* the clock when the page is opened: 23:00 UTC, which is 01:00 of the next
\* day in Berlin and 19:00 in New York
StartClock == UtcHour(2024, 4, 3, 23)

\* daysBack(n): new Date() moved n local calendar days back
daysBack(z, n) == SetDatePlus(z, [ok |-> TRUE, h |-> now], -n)

\* setX(v), called by refresh number req (0: by an input or a switch)
Upd(f, v, req) == [f |-> f, v |-> v, req |-> req]

\* const canLoad = demoMode || (all six credential fields); the App variant
\* has no such condition
\* (a button that is never disabled for missing credentials is canLoad_always)
canLoad_always == TRUE
canLoad == variant = "app" \/ view.demoMode \/ view.creds

Idle == pending = <<>> /\ inflight = <<>>

\* loadAll up to its await: setLoading(true), then the three calls.  In demo
\* mode (and in the App variant) the synthesizers run inside the array
\* literal, so an exception leaves the try block at once; the fetch*Real
\* functions are async and turn it into a rejection.
loadAllCalls(id, l, y, w) ==
    /\ reqs' = id
    /\ streams' = streams \o <<Closure(42, l.t), Closure(7, y.t), Closure(1337, w.t)>>
    /\ IF (variant = "app" \/ view.demoMode) /\ (l.res.threw \/ y.res.threw \/ w.res.threw)
       THEN /\ pending' = pending \o <<Upd("loading", TRUE, id), Upd("loading", FALSE, id)>>
            /\ inflight' = inflight
       ELSE /\ pending' = Append(pending, Upd("loading", TRUE, id))
            /\ inflight' = Append(inflight,
                   [id |-> id, fromISO |-> view.fromISO, toISO |-> view.toISO,
                    demo |-> (variant = "app" \/ view.demoMode),
                    li |-> l.res, yt |-> y.res, web |-> w.res])
    /\ UNCHANGED <<tz, now, genIn, genOut, variant, view, done>>

\* the API placeholders: async functions that take the credentials and
\* identifiers of their channel (creds: whether all six are filled in) and
\* return what the synthesizer returns
fetchLinkedInReal(v, z, creds, fromISO, toISO) == genLinkedInMockRun(v, z, fromISO, toISO)
fetchYouTubeReal(v, z, creds, fromISO, toISO) == genYouTubeMockRun(v, z, fromISO, toISO)
\* (a placeholder that passes the range the wrong way round is
\* fetchWebReal_swapped)
fetchWebReal_swapped(v, z, creds, fromISO, toISO) == genWebMockRun(v, z, toISO, fromISO)
fetchWebReal(v, z, creds, fromISO, toISO) == genWebMockRun(v, z, fromISO, toISO)

loadAll ==
    IF variant = "app" \/ view.demoMode
    THEN loadAllCalls(reqs + 1,
             genLinkedInMockRun(variant, tz, view.fromISO, view.toISO),
             genYouTubeMockRun(variant, tz, view.fromISO, view.toISO),
             genWebMockRun(variant, tz, view.fromISO, view.toISO))
    ELSE loadAllCalls(reqs + 1,
             fetchLinkedInReal(variant, tz, view.creds, view.fromISO, view.toISO),
             fetchYouTubeReal(variant, tz, view.creds, view.fromISO, view.toISO),
             fetchWebReal(variant, tz, view.creds, view.fromISO, view.toISO))

\* useEffect(() => { loadAll(); }, []): once, after the first render and
\* before any event
MountEffect ==
    /\ reqs = 0
    /\ loadAll

\* the button "Daten laden" / "Refresh Data"
ClickLoad ==
    /\ reqs >= 1 /\ reqs < MaxReqs
    /\ Idle
    /\ ~view.loading
    /\ canLoad
    /\ loadAll

\* setLi(liRes); setYt(ytRes); setWeb(webRes); ... finally setLoading(false)
\* (a loadAll without the finally block is SettleUpdates_noFinally)
SettleUpdates_noFinally(r) ==
    << Upd("li", Some(r.id, r.li), r.id), Upd("yt", Some(r.id, r.yt), r.id),
       Upd("web", Some(r.id, r.web), r.id) >>
SettleUpdates_noWeb(r) ==
    << Upd("li", Some(r.id, r.li), r.id), Upd("yt", Some(r.id, r.yt), r.id),
       Upd("loading", FALSE, r.id) >>
SettleUpdates(r) ==
    << Upd("li", Some(r.id, r.li), r.id), Upd("yt", Some(r.id, r.yt), r.id),
       Upd("web", Some(r.id, r.web), r.id), Upd("loading", FALSE, r.id) >>

\* loadAll after its await
loadAllSettle ==
    /\ inflight # <<>>
    /\ LET r == Head(inflight)
       IN  IF r.li.threw \/ r.yt.threw \/ r.web.threw
           THEN /\ pending' = Append(pending, Upd("loading", FALSE, r.id))
                /\ done' = done
           ELSE /\ pending' = pending \o SettleUpdates(r)
                /\ done' = Append(done, r)
    /\ inflight' = Tail(inflight)
    /\ UNCHANGED <<tz, now, streams, genIn, genOut, variant, view, reqs>>

\* one update applied to the component state; cleared is a ghost: the refresh
\* whose setLoading(false) was applied last
ApplyUpd(v, u) ==
    IF u.f = "loading" /\ ~u.v
    THEN [v EXCEPT !.loading = FALSE, !.cleared = u.req]
    ELSE [v EXCEPT ![u.f] = u.v]

RECURSIVE ApplyAll(_, _)
ApplyAll(v, us) == IF us = <<>> THEN v ELSE ApplyAll(ApplyUpd(v, Head(us)), Tail(us))

\* a render commits all pending updates at once; the component body reads
\* the clock: const today = toISODate(new Date())
Render ==
    /\ pending # <<>>
    /\ view' = [ApplyAll(view, pending) EXCEPT !.today = toISODate([ok |-> TRUE, h |-> now]).iso]
    /\ pending' = <<>>
    /\ UNCHANGED <<tz, now, streams, genIn, genOut, variant, inflight, done, reqs>>

\* the date inputs: onChange={(e) => setFromISO(e.target.value)}
SetFromISO(d) ==
    /\ reqs >= 1 /\ Idle
    /\ pending' = <<Upd("fromISO", d, 0)>>
    /\ UNCHANGED <<tz, now, streams, genIn, genOut, variant, view, inflight, done, reqs>>

SetToISO(d) ==
    /\ reqs >= 1 /\ Idle
    /\ pending' = <<Upd("toISO", d, 0)>>
    /\ UNCHANGED <<tz, now, streams, genIn, genOut, variant, view, inflight, done, reqs>>

\* the preset buttons 7T, 28T and 90T of the dashboard variant:
\* onClick={() => { setFromISO(toISODate(daysBack(n))); setToISO(today); }}
PresetDays == {6, 27, 89}

PresetUpdates(n) ==
    << Upd("fromISO", toISODate(daysBack(tz, n)).iso, 0), Upd("toISO", view.today, 0) >>

Preset(n) ==
    /\ variant = "dashboard"
    /\ reqs >= 1 /\ Idle
    /\ pending' = PresetUpdates(n)
    /\ UNCHANGED <<tz, now, streams, genIn, genOut, variant, view, inflight, done, reqs>>

\* the preset button Heute: onClick={() => { setFromISO(toISO); }}
HeuteUpdates == << Upd("fromISO", view.toISO, 0) >>

Heute ==
    /\ variant = "dashboard"
    /\ reqs >= 1 /\ Idle
    /\ pending' = HeuteUpdates
    /\ UNCHANGED <<tz, now, streams, genIn, genOut, variant, view, inflight, done, reqs>>

\* the Demo switch of the dashboard variant
SetDemoMode(b) ==
    /\ variant = "dashboard"
    /\ reqs >= 1 /\ Idle
    /\ pending' = <<Upd("demoMode", b, 0)>>
    /\ UNCHANGED <<tz, now, streams, genIn, genOut, variant, view, inflight, done, reqs>>

\* the credential inputs of the dashboard variant; creds: all six are filled
SetCreds(b) ==
    /\ variant = "dashboard"
    /\ reqs >= 1 /\ Idle
    /\ pending' = <<Upd("creds", b, 0)>>
    /\ UNCHANGED <<tz, now, streams, genIn, genOut, variant, view, inflight, done, reqs>>

\* the tab buttons of the App variant: onClick={() => setActiveTab(key)}
Tabs == {"linkedin", "youtube", "website"}

SetActiveTab(tab) ==
    /\ variant = "app"
    /\ reqs >= 1 /\ Idle
    /\ pending' = <<Upd("activeTab", tab, 0)>>
    /\ UNCHANGED <<tz, now, streams, genIn, genOut, variant, view, inflight, done, reqs>>

\* const days = rangeDays(fromISO, toISO).length: the day count of the label
rangeLabel == Len(rangeDays(tz, view.fromISO, view.toISO).dates)

\* what a render of the component state v does with channel c ("li", "yt",
\* "web"): it reads fields of the result, shows a placeholder, or leaves the
\* channel out.  The dashboard guards every read by the result itself
\* (li ? ... : "-", !li ? <LoadingBlock /> : ...); the App shows the spinner
\* while loading and otherwise the blocks of the active tab, each guarded by
\* that tab's result, the KPI cards of the LinkedIn tab reading web.users,
\* web.conversions and web.revenue.
FieldsRead(vt, v) ==
    IF vt = "dashboard" THEN {c \in {"li", "yt", "web"} : v[c].p}
    ELSE IF v.loading THEN {}
    ELSE IF v.activeTab = "linkedin" THEN (IF v.li.p THEN {"li", "web"} ELSE {})
    ELSE IF v.activeTab = "youtube" THEN (IF v.yt.p THEN {"yt"} ELSE {})
    ELSE (IF v.web.p THEN {"web"} ELSE {})

Rendered(vt, v, c) ==
    IF c \in FieldsRead(vt, v) THEN "fields"
    ELSE IF vt = "dashboard" \/ v.loading THEN "placeholder"
    ELSE "omitted"

Init ==
    /\ tz \in ZoneNames
    /\ now = StartClock
    /\ streams = <<>>
    /\ genIn = [v |-> "dashboard", fromISO |-> <<>>, toISO |-> <<>>]
    /\ genOut = <<>>
    /\ variant \in Variants
    /\ view = [ fromISO |-> toISODate(daysBack(tz, 27)).iso,
                toISO |-> toISODate([ok |-> TRUE, h |-> now]).iso,
                today |-> toISODate([ok |-> TRUE, h |-> now]).iso,
                demoMode |-> TRUE, creds |-> FALSE, activeTab |-> "linkedin",
                loading |-> FALSE, cleared |-> 0,
                li |-> Null, yt |-> Null, web |-> Null ]
    /\ pending = <<>>
    /\ inflight = <<>>
    /\ done = <<>>
    /\ reqs = 0

Next ==
    \/ MountEffect
    \/ ClickLoad
    \/ loadAllSettle
    \/ Render
    \/ \E d \in ViewDates : SetFromISO(d)
    \/ \E d \in ViewDates : SetToISO(d)
    \/ \E n \in PresetDays : Preset(n)
    \/ Heute
    \/ \E b \in BOOLEAN : SetDemoMode(b)
    \/ \E b \in BOOLEAN : SetCreds(b)
    \/ \E tab \in Tabs : SetActiveTab(tab)

Spec == Init /\ [][Next]_vars

\* The same component under the scheduling of the browser: the effect of the
\* mount runs, a settled await resumes loadAll, and queued updates are
\* rendered.  Nothing obliges the user to act.  MountScheduled describes the
\* step of MountEffect by what it does to reqs: it is enabled exactly when
\* MountEffect is (loadAll always returns), and under Next the steps that
\* take reqs from 0 to 1 are the steps of MountEffect.
MountScheduled == reqs = 0 /\ reqs' = 1

SpecFair ==
    /\ Init /\ [][Next]_vars
    /\ WF_reqs(MountScheduled) /\ WF_vars(loadAllSettle) /\ WF_vars(Render)

-----------------------------------------------------------------------------
(* Vocabulary of the properties *)

WellFormed(iso) == Len(iso) = 3
Day(iso) == DaysFromCivil(iso[1], iso[2], iso[3])
Ordered(a, b) == WellFormed(a) /\ WellFormed(b) /\ Day(a) <= Day(b)
Inverted(a, b) == WellFormed(a) /\ WellFormed(b) /\ Day(a) > Day(b)
Malformed(a, b) == ~WellFormed(a) \/ ~WellFormed(b)

\* the calendar days from a to b, both included
CalendarDays(a, b) == [i \in 1..(Day(b) - Day(a) + 1) |-> CivilFromDays(Day(a) + i - 1)]

\* the dates of a sequence of daily records
DatesOf(daily) == [i \in 1..Len(daily) |-> daily[i].date]

Calls == 1..Len(genOut)

\* the refresh that produced what the view shows
Shown(c) == view.li.p /\ c.id = view.li.req

-----------------------------------------------------------------------------
(* Properties *)

\* C9: a successful refresh replaces li, yt and web together: the view never
\* shows results of different refreshes (or some present and some absent),
\* and when the loading flag has been cleared by a successful refresh the
\* view shows the three results of that refresh.
RefreshReplacesTogether ==
    /\ view.li.p = view.yt.p /\ view.yt.p = view.web.p
    /\ view.li.req = view.yt.req /\ view.yt.req = view.web.req
    /\ \A i \in 1..Len(done) :
          (~view.loading /\ view.cleared = done[i].id) =>
              /\ view.li.p /\ view.li.req = done[i].id
              /\ view.web.p /\ view.web.req = done[i].id

RefreshReplacesTogether_witness ==
    /\ reqs = 2 /\ Idle /\ ~view.loading
    /\ view.cleared = 2 /\ view.li.p /\ view.li.req = 2
    /\ Len(view.li.v.posts) > 0

\* C10: no stream state survives a call or a refresh: two completed refreshes
\* that captured the same date range stored the same results (the first one
\* of a run is the first-ever refresh), and what the view shows is what the
\* refresh shown computed when it was requested.
RefreshStartsAfresh ==
    /\ \A i, j \in 1..Len(done) :
          (done[i].fromISO = done[j].fromISO /\ done[i].toISO = done[j].toISO) =>
              /\ done[i].li = done[j].li
              /\ done[i].yt = done[j].yt
              /\ done[i].web = done[j].web
    /\ \A i \in 1..Len(done) :
          Shown(done[i]) =>
              /\ view.li.v = done[i].li
              /\ view.yt.v = done[i].yt
              /\ view.web.v = done[i].web

RefreshStartsAfresh_witness ==
    /\ Len(done) = 2 /\ Idle
    /\ done[1].fromISO = done[2].fromISO /\ done[1].toISO = done[2].toISO
    /\ Shown(done[2])
    /\ Len(view.li.v.posts) > 1

\* C1: two calls of a synthesizer with the same date range return identical
\* results: the same daily records and the same summary fields.
SynthesizersDeterministic ==
    \A i, j \in Calls :
        /\ genOut[i].li = genOut[j].li
        /\ genOut[i].yt = genOut[j].yt
        /\ genOut[i].web = genOut[j].web

SynthesizersDeterministic_witness ==
    /\ Len(genOut) >= 2
    /\ Ordered(genIn.fromISO, genIn.toISO)
    /\ Len(genOut[2].li.posts) >= 2
    /\ Len(genOut[2].yt.daily) >= 2
    /\ Len(genOut[2].web.daily) >= 2

\* C2: two streams built from the same non-zero seed return the same values,
\* draw by draw, whenever they are built.
StreamsDeterministic ==
    \A i, j \in 1..Len(streams) :
        (streams[i].seed = streams[j].seed /\ streams[i].seed # 0) =>
            \A k \in 1..Len(streams[i].outs) :
                k <= Len(streams[j].outs) => streams[i].outs[k] = streams[j].outs[k]

StreamsDeterministic_witness ==
    \E i, j \in 1..Len(streams) :
        /\ i < j
        /\ streams[i].seed = streams[j].seed /\ streams[i].seed = 42
        /\ Len(streams[i].outs) >= 2 /\ Len(streams[j].outs) >= 2
        /\ streams[j].outs[1] # streams[j].outs[2]

\* C3 (as claimed): for every integer seed, every value a stream returns lies
\* in [0, 1), i.e. its numerator lies in 0..Modulus-1.
C3_DrawsInUnitInterval ==
    \A i \in 1..Len(streams) :
        \A k \in 1..Len(streams[i].outs) :
            streams[i].outs[k] >= 0 /\ streams[i].outs[k] < Modulus

\* C4 (as claimed): for every range with start <= end, each synthesizer
\* returns one record per calendar day from start to end, in order, without
\* duplicate or gap.
C4_OneRecordPerCalendarDay ==
    \A i \in Calls :
        Ordered(genIn.fromISO, genIn.toISO) =>
            /\ DatesOf(genOut[i].li.posts) = CalendarDays(genIn.fromISO, genIn.toISO)
            /\ DatesOf(genOut[i].yt.daily) = CalendarDays(genIn.fromISO, genIn.toISO)
            /\ DatesOf(genOut[i].web.daily) = CalendarDays(genIn.fromISO, genIn.toISO)

\* C5: for a range with start > end, and for a malformed date, each
\* synthesizer returns without an exception and its daily sequence is empty.
InvertedRangeIsEmpty ==
    \A i \in Calls :
        (Inverted(genIn.fromISO, genIn.toISO) \/ Malformed(genIn.fromISO, genIn.toISO)) =>
            /\ ~genOut[i].li.threw /\ genOut[i].li.posts = <<>>
            /\ ~genOut[i].yt.threw /\ genOut[i].yt.daily = <<>>
            /\ ~genOut[i].web.threw /\ genOut[i].web.daily = <<>>

InvertedRangeIsEmpty_witness ==
    /\ Len(genOut) >= 1
    /\ Inverted(genIn.fromISO, genIn.toISO)
    /\ ~genOut[1].li.threw /\ genOut[1].li.posts = <<>>

\* C6 (as claimed): for a range with start > end every aggregate of every
\* channel summary is 0, the derived values included; none is NaN or Infinity.
C6_InvertedRangeAllZero ==
    \A i \in Calls :
        Inverted(genIn.fromISO, genIn.toISO) =>
            /\ genOut[i].li.impressions = 0 /\ genOut[i].li.clicks = 0
            /\ genOut[i].li.leads = 0
            /\ genOut[i].li.spend = [w |-> 0, f |-> 0]
            /\ IsZero(genOut[i].li.ctr)
            /\ IsZero(genOut[i].li.cpc)
            /\ (genIn.v = "dashboard" => IsZero(genOut[i].li.cpl))
            /\ genOut[i].yt.views = 0 /\ genOut[i].yt.watchTime = 0
            /\ IsZero(genOut[i].yt.averageViewDuration)
            /\ genOut[i].web.sessions = 0 /\ genOut[i].web.users = 0
            /\ genOut[i].web.conversions = 0 /\ genOut[i].web.revenue = 0
            /\ IsZero(genOut[i].web.avgSessionDuration)

\* C7 (as claimed): whenever the LinkedIn synthesizer accumulated 0 clicks,
\* the cost-per-click of its summary is 0.
C7_ZeroClicksZeroCpc ==
    \A i \in Calls : genOut[i].li.clicks = 0 => IsZero(genOut[i].li.cpc)

C11_StartNotAfterEnd == ~Inverted(view.fromISO, view.toISO)

\* (state * 48271) mod 2147483647 by Schrage's decomposition
\* 2147483647 = 48271 * 44488 + 3399, for 0 <= t < 2147483647; for a negative
\* state the remainder keeps the sign of the product
LcgStep(t) ==
    LET x == 48271 * (t % 44488) - 3399 * (t \div 44488)
    IN  IF x < 0 THEN x + 2147483647 ELSE x
LcgNext(t) == IF t >= 0 THEN LcgStep(t) ELSE -LcgStep(-t)

\* C16: a stream starts from seed % 2147483647, every draw replaces the state
\* by (state * 48271) % 2147483647 and returns state / 2147483647 (kept as the
\* numerator); for seed 42 the state after the first draw is 2027382.
StreamFollowsRecurrence ==
    \A i \in 1..Len(streams) :
        /\ \A k \in 1..Len(streams[i].outs) :
              streams[i].outs[k] =
                  LcgNext(IF k = 1 THEN JSRem(streams[i].seed, 2147483647)
                          ELSE streams[i].outs[k - 1])
        /\ streams[i].t =
              (IF streams[i].outs = <<>> THEN JSRem(streams[i].seed, 2147483647)
               ELSE streams[i].outs[Len(streams[i].outs)])
        /\ (streams[i].seed = 42 /\ streams[i].outs # <<>>) => streams[i].outs[1] = 2027382

StreamFollowsRecurrence_witness ==
    \E i, j \in 1..Len(streams) :
        /\ i # j
        /\ streams[i].seed = 42 /\ Len(streams[i].outs) = MaxDraws
        /\ streams[i].outs[1] = 2027382
        /\ streams[j].seed = 42 /\ Len(streams[j].outs) >= 1
        /\ streams[j].outs[1] = 2027382

\* C20: a stream built from seed 0, or from a multiple of 2147483647, returns
\* 0 on every draw and its state never leaves 0.
ZeroSeedStaysZero ==
    \A i \in 1..Len(streams) :
        streams[i].seed % 2147483647 = 0 =>
            /\ streams[i].t = 0
            /\ \A k \in 1..Len(streams[i].outs) : streams[i].outs[k] = 0

ZeroSeedStaysZero_witness ==
    \E i, j \in 1..Len(streams) :
        /\ streams[i].seed = 0 /\ Len(streams[i].outs) = MaxDraws
        /\ streams[j].seed = 2147483647 /\ Len(streams[j].outs) = MaxDraws
        /\ streams[j].outs[MaxDraws] = 0

\* the state of a stream n draws after state t
RECURSIVE After(_, _)
After(t, n) == IF n = 0 THEN t ELSE After(LcgNext(t), n - 1)

\* the stream a call left behind: channel c (1 LinkedIn, 2 YouTube, 3 Web) of
\* call i, and the number of daily records that call returned for it
StreamOf(i, c) == streams[3 * (i - 1) + c]
DaysOf(i, c) ==
    IF c = 1 THEN Len(genOut[i].li.posts)
    ELSE IF c = 2 THEN Len(genOut[i].yt.daily) ELSE Len(genOut[i].web.daily)

\* C17 (as claimed): every channel draws the same number n of values per day,
\* 2 <= n <= 6, so that after k days its stream has made exactly k * n draws.
C17_FixedDrawsPerDay ==
    \A i \in Calls : \A c \in 1..3 :
        \E n \in 2..6 :
            StreamOf(i, c).t = After(StreamOf(i, c).seed, n * DaysOf(i, c))

\* the sum of field f over a sequence of daily records
RECURSIVE SumOver(_, _)
SumOver(daily, f) == IF daily = <<>> THEN 0 ELSE daily[1][f] + SumOver(Tail(daily), f)

\* C18: each volume total of a summary is the sum of that field over the
\* daily records returned with it (users and pageviews are daily fields of
\* the dashboard variant only).
TotalsAreSums ==
    \A i \in Calls :
        /\ genOut[i].li.impressions = SumOver(genOut[i].li.posts, "impressions")
        /\ genOut[i].yt.views = SumOver(genOut[i].yt.daily, "views")
        /\ genOut[i].yt.watchTime = SumOver(genOut[i].yt.daily, "watchTime")
        /\ genOut[i].web.sessions = SumOver(genOut[i].web.daily, "sessions")
        /\ genOut[i].web.conversions = SumOver(genOut[i].web.daily, "conversions")
        /\ genOut[i].web.revenue = SumOver(genOut[i].web.daily, "revenue")
        /\ genIn.v = "dashboard" =>
              /\ genOut[i].web.users = SumOver(genOut[i].web.daily, "users")
              /\ genOut[i].web.pageviews = SumOver(genOut[i].web.daily, "pageviews")

TotalsAreSums_witness ==
    /\ Len(genOut) >= 1
    /\ genIn.v = "dashboard"
    /\ Len(genOut[1].yt.daily) >= 3
    /\ genOut[1].yt.views > genOut[1].yt.daily[1].views + genOut[1].yt.daily[2].views
    /\ genOut[1].web.pageviews = SumOver(genOut[1].web.daily, "pageviews")
    /\ genOut[1].li.impressions > genOut[1].li.posts[1].impressions

\* the fields of the daily records that count something, per channel
VolumeFields(v, c) ==
    IF c = "li"
    THEN (IF v = "dashboard" THEN {"impressions", "reactions", "comments", "shares"}
          ELSE {"impressions", "reactions"})
    ELSE IF c = "yt"
    THEN (IF v = "dashboard" THEN {"views", "watchTime", "avgViewSeconds"}
          ELSE {"views", "watchTime", "subscribers"})
    ELSE (IF v = "dashboard"
          THEN {"sessions", "users", "pageviews", "conversions", "revenue", "avgSessionSec"}
          ELSE {"sessions", "conversions", "revenue"})

DailyOf(i, c) ==
    IF c = "li" THEN genOut[i].li.posts
    ELSE IF c = "yt" THEN genOut[i].yt.daily ELSE genOut[i].web.daily

\* C19: every volume field of every daily record is a non-negative integer;
\* the net subscriber delta of the dashboard's YouTube records is an integer
\* (gained minus lost, each between its bounds) and may be negative.
DailyVolumesNonNegative ==
    \A i \in Calls :
        /\ \A c \in {"li", "yt", "web"} :
              \A k \in 1..Len(DailyOf(i, c)) :
                  \A f \in VolumeFields(genIn.v, c) : DailyOf(i, c)[k][f] \in Nat
        /\ genIn.v = "dashboard" =>
              \A k \in 1..Len(genOut[i].yt.daily) : genOut[i].yt.daily[k].subs \in -5..15

DailyVolumesNonNegative_witness ==
    /\ Len(genOut) >= 1
    /\ genIn.v = "dashboard"
    /\ Len(genOut[1].li.posts) >= 2 /\ Len(genOut[1].web.daily) >= 2
    /\ \E k \in 1..Len(genOut[1].yt.daily) : genOut[1].yt.daily[k].subs < 0

\* C13: the API placeholders resolve to what the synthesizers return: a
\* completed refresh with demo mode off stored the same li, yt and web as a
\* completed refresh of the same date range with demo mode on, and the view
\* shows them.
RealEqualsDemo ==
    \A i, j \in 1..Len(done) :
        (done[i].demo /\ ~done[j].demo
           /\ done[i].fromISO = done[j].fromISO /\ done[i].toISO = done[j].toISO) =>
            /\ done[j].li = done[i].li
            /\ done[j].yt = done[i].yt
            /\ done[j].web = done[i].web
            /\ Shown(done[j]) =>
                  (view.li.v = done[i].li /\ view.yt.v = done[i].yt /\ view.web.v = done[i].web)

RealEqualsDemo_witness ==
    /\ Len(done) = 2 /\ Idle
    /\ done[1].demo /\ ~done[2].demo
    /\ done[1].fromISO = done[2].fromISO /\ done[1].toISO = done[2].toISO
    /\ Shown(done[2]) /\ ~view.demoMode /\ view.creds
    /\ Len(view.web.v.daily) > 1

\* C15: no render reads a field of an absent result: every channel whose
\* fields the render reads is present, and an absent channel is shown as a
\* placeholder or left out; in particular the App's LinkedIn cards, guarded by
\* li alone, never read web while web is absent.
NoAbsentFieldRead ==
    /\ \A c \in FieldsRead(variant, view) : view[c].p
    /\ \A c \in {"li", "yt", "web"} :
          ~view[c].p => Rendered(variant, view, c) \in {"placeholder", "omitted"}

NoAbsentFieldRead_witness ==
    /\ variant = "app"
    /\ ~view.loading /\ view.activeTab = "linkedin"
    /\ "web" \in FieldsRead(variant, view)
    /\ view.web.p /\ Len(view.web.v.daily) > 0
    /\ reqs = 2

\* C14: the mount starts one refresh without any user action, and that
\* refresh is eventually on the screen: a state is reached in which exactly
\* one refresh has been requested, loading is false and li, yt and web are
\* present, all three from that refresh.
MountRefreshCompletes ==
    <>(/\ reqs = 1
       /\ ~view.loading
       /\ view.li.p /\ view.yt.p /\ view.web.p
       /\ view.li.req = 1 /\ view.yt.req = 1 /\ view.web.req = 1)

MountRefreshCompletes_witness ==
    /\ reqs = 1 /\ Idle
    /\ Len(done) = 1 /\ done[1].id = 1
    /\ ~view.loading /\ view.cleared = 1
    /\ view.li.p /\ view.yt.p /\ view.web.p
    /\ Len(view.li.v.posts) > 0

\* C12: whatever order the three synthesizers start in, however their map
\* callbacks interleave and whatever order their promises settle in, the
\* three results handed over are those of the calls made one after the other:
\* a draw from one channel's stream never changes what another channel gets.
ChannelsIndependent ==
    \A i \in 1..Len(genOut), j \in 1..Len(done) :
        /\ genOut[i].li = done[j].li
        /\ genOut[i].yt = done[j].yt
        /\ genOut[i].web = done[j].web

\* results collected from calls started last-to-first and settled in yet
\* another order, over a range of at least two days
ChannelsIndependent_witness ==
    /\ Len(genOut) = 1
    /\ Len(done) = 1
    /\ genOut[1].started = [k \in 1..3 |-> <<"web", "yt", "li">>[k]]
    /\ genOut[1].settled = [k \in 1..3 |-> <<"yt", "li", "web">>[k]]
    /\ ~genOut[1].li.threw
    /\ Len(genOut[1].li.posts) >= 2

\* the other variant of the component
OtherVariant(v) == IF v = "dashboard" THEN "app" ELSE "dashboard"

\* the totals both variants report
SharedTotals(l, y, w) ==
    IF l.threw \/ y.threw \/ w.threw THEN <<>>
    ELSE << l.impressions, l.clicks, l.spend, l.leads, y.views, y.watchTime,
            w.sessions, w.users, w.conversions, w.revenue >>

\* C22 (as claimed): for every date range the totals of the fields the two
\* variants share are equal: what the mounted variant's synthesizers return
\* agrees with what the other variant's synthesizers return for that range.
C22_VariantsSameTotals ==
    \A i \in Calls :
        SharedTotals(genOut[i].li, genOut[i].yt, genOut[i].web)
          = SharedTotals(genLinkedInMock(OtherVariant(genIn.v), tz, genIn.fromISO, genIn.toISO),
                         genYouTubeMock(OtherVariant(genIn.v), tz, genIn.fromISO, genIn.toISO),
                         genWebMock(OtherVariant(genIn.v), tz, genIn.fromISO, genIn.toISO))

\* C23: in every state the component is rendered in, the three channel
\* results li, yt and web are all absent or all present.
ResultsAllOrNone ==
    \/ view.li.p /\ view.yt.p /\ view.web.p
    \/ ~view.li.p /\ ~view.yt.p /\ ~view.web.p

\* both cases: the three results present after a second refresh replaced
\* those of the mount refresh (the absent case is the initial state)
ResultsAllOrNone_witness ==
    /\ reqs = 2 /\ Idle
    /\ view.li.p /\ view.yt.p /\ view.web.p
    /\ view.web.req = 2

\* C24: a refresh the user starts (every refresh after the mount refresh)
\* starts only from a render whose loading flag is false and, in the
\* dashboard variant, only with demo mode on or all six credential fields
\* filled; and at no time is more than one refresh in flight.
UserRefreshOnlyWhenAllowed ==
    /\ [](Len(inflight) <= 1)
    /\ [][(reqs >= 1 /\ reqs' = reqs + 1) =>
              /\ ~view.loading
              /\ (variant = "app" \/ view.demoMode \/ view.creds)
              /\ inflight = <<>>]_vars

\* a refresh started by the button with demo mode off and the credentials
\* filled in is in flight, and the render shows the loading flag
UserRefreshOnlyWhenAllowed_witness ==
    /\ variant = "dashboard"
    /\ reqs = 2 /\ Len(inflight) = 1
    /\ ~view.demoMode /\ view.creds
    /\ view.loading

\* the number of daily records of each of the three results shown
ShownCounts == << Len(view.li.v.posts), Len(view.yt.v.daily), Len(view.web.v.daily) >>

\* C26 (as claimed): whenever loading is false and results are present, each
\* channel result has as many daily records as the day count rangeLabel
\* shows for the date range selected now.
C26_DailyCountMatchesLabel ==
    (~view.loading /\ view.li.p /\ view.yt.p /\ view.web.p) =>
        ShownCounts = << rangeLabel, rangeLabel, rangeLabel >>

\* C26 (amended): whenever loading is false and results are present, each
\* channel result has as many daily records as there are days in the range
\* its refresh was requested with; that is the day count rangeLabel shows as
\* long as the selected range is still the one of that refresh.
DailyCountMatchesRequestedRange ==
    \A i \in 1..Len(done) :
        (~view.loading /\ Shown(done[i])) =>
            /\ ShownCounts = [k \in 1..3 |->
                                 Len(rangeDays(tz, done[i].fromISO, done[i].toISO).dates)]
            /\ (view.fromISO = done[i].fromISO /\ view.toISO = done[i].toISO) =>
                   ShownCounts = << rangeLabel, rangeLabel, rangeLabel >>

\* the results of a second refresh, requested after the end date was moved,
\* are shown with the range still selected
DailyCountMatchesRequestedRange_witness ==
    /\ Len(done) = 2 /\ Idle /\ ~view.loading
    /\ Shown(done[2])
    /\ done[2].toISO # done[1].toISO
    /\ view.fromISO = done[2].fromISO /\ view.toISO = done[2].toISO
    /\ rangeLabel > 28

\* a daily record without its date
Metrics(rec) == [f \in (DOMAIN rec) \ {"date"} |-> rec[f]]

MetricsOf(daily) == [i \in 1..Len(daily) |-> Metrics(daily[i])]

\* two sequences agree position by position as far as both reach
AgreeByPosition(a, b) ==
    \A i \in 1..Len(a) : i <= Len(b) => a[i] = b[i]

\* the longest range of the window
WindowFrom == CivilFromDays(WindowStart)
WindowTo == CivilFromDays(WindowStart + WindowDays - 1)

\* C27: the metric values of the i-th daily record of a channel depend only
\* on i: whatever its dates, the records a call returned agree position by
\* position with those of the range that spans the whole window.  Hence any
\* two ranges agree as far as both reach: ranges of the same length give the
\* same values and a later end date leaves the earlier records as they were.
MetricsDependOnPositionOnly ==
    \A i \in Calls :
        /\ AgreeByPosition(MetricsOf(genOut[i].li.posts),
               MetricsOf(genLinkedInMock(genIn.v, tz, WindowFrom, WindowTo).posts))
        /\ AgreeByPosition(MetricsOf(genOut[i].yt.daily),
               MetricsOf(genYouTubeMock(genIn.v, tz, WindowFrom, WindowTo).daily))
        /\ AgreeByPosition(MetricsOf(genOut[i].web.daily),
               MetricsOf(genWebMock(genIn.v, tz, WindowFrom, WindowTo).daily))

\* a call returned at least three records per channel for a range that does
\* neither start on the first day of the window nor end on its last
MetricsDependOnPositionOnly_witness ==
    /\ Len(genOut) >= 1
    /\ Ordered(genIn.fromISO, genIn.toISO)
    /\ Day(genIn.fromISO) > WindowStart
    /\ Day(genIn.toISO) < WindowStart + WindowDays - 1
    /\ Len(genOut[1].li.posts) >= 3
    /\ Len(genOut[1].yt.daily) >= 3
    /\ Len(genOut[1].web.daily) >= 3

\* C28: for every seed that is a positive integer not divisible by the
\* modulus, the state of the stream is in 1..Modulus-1 from its construction
\* on and after every draw, so no draw returns 0.
PositiveSeedNeverCollapses ==
    \A i \in 1..Len(streams) :
        (streams[i].seed > 0 /\ streams[i].seed % Modulus # 0) =>
            /\ streams[i].t \in 1..(Modulus - 1)
            /\ \A k \in 1..Len(streams[i].outs) :
                  streams[i].outs[k] \in 1..(Modulus - 1)

\* the streams of two channel seeds, each drawn from four times
PositiveSeedNeverCollapses_witness ==
    \E i, j \in 1..Len(streams) :
        /\ streams[i].seed = 42 /\ Len(streams[i].outs) >= 4
        /\ streams[j].seed = 1337 /\ Len(streams[j].outs) >= 4

\* C29 (as claimed): in the dashboard variant, the render after the 7T, 28T
\* or 90T preset shows a range with from <= to that expands to exactly 7, 28
\* or 90 days, and the render after Heute shows a single day (from = to),
\* whatever the range was before.
C29_PresetsGiveTheirRange ==
    [][/\ \A n \in PresetDays :
             (pending = PresetUpdates(n) /\ pending' = <<>>) =>
                 /\ Ordered(view'.fromISO, view'.toISO)
                 /\ Len(rangeDays(tz, view'.fromISO, view'.toISO).dates) = n + 1
       /\ (pending = HeuteUpdates /\ pending' = <<>>) =>
             /\ view'.fromISO = view'.toISO
             /\ Len(rangeDays(tz, view'.fromISO, view'.toISO).dates) = 1]_vars

\* C30: for every non-empty date range, each of the 10 post items of the
\* LinkedIn result (dashboard variant) has a published date that is one of
\* the dates of the expanded range: the index floor(draw * length) never
\* leaves 0..length-1.
PostItemsPublishedInRange ==
    \A i \in Calls :
        (genIn.v = "dashboard" /\ ~genOut[i].li.threw /\ Len(genOut[i].li.posts) > 0) =>
            /\ Len(genOut[i].li.postItems) = PostTitles
            /\ \A k \in 1..Len(genOut[i].li.postItems) :
                  \E j \in 1..Len(genOut[i].li.posts) :
                      genOut[i].li.postItems[k].published = genOut[i].li.posts[j].date

\* a range of at least three days with post items published on its first
\* and on its last date
PostItemsPublishedInRange_witness ==
    /\ Len(genOut) >= 1 /\ genIn.v = "dashboard" /\ tz = "UTC"
    /\ Len(genOut[1].li.posts) >= 3
    /\ \E k \in 1..PostTitles : genOut[1].li.postItems[k].published = genIn.fromISO
    /\ \E k \in 1..PostTitles : genOut[1].li.postItems[k].published = genIn.toISO

====
